---- MODULE Spec2Model ----
(***************************************************************************)
(* A model of the FashionMNIST training and local scoring scripts:         *)
(*   endpoint-1/src/train.py       (main, train, load_train_val_data,      *)
(*                                  save_model)                            *)
(*   endpoint_1/src/score_local.py (main)                                  *)
(*                                                                         *)
(* Three specifications share the module:                                  *)
(*   Spec       the training script, run after run over one file system    *)
(*   SplitSpec  load_train_val_data's split arithmetic on drawn inputs     *)
(*   ScoreSpec  the scoring script on a drawn images directory             *)
(***************************************************************************)
EXTENDS Integers, Sequences, FiniteSets

VARIABLES
    pc,               \* position of the training script
    run,              \* which invocation of the script this is (1, 2, ...)
    device,           \* main's local `device`
    epoch,            \* train's loop variable
    calls,            \* the operations train has invoked so far, in order
    logged,           \* the records mlflow.log_metrics has accepted
    failedIn,         \* the operation whose exception ended the run
    modelDir,         \* the directory tree at model_dir
    modelDirAtStart,  \* modelDir as this run found it
    tmp,              \* the directories under tempfile.gettempdir(), by uuid
    temp_path,        \* save_model's local `temp_path` (0: not yet chosen)
    tempPaths,        \* every temp_path chosen so far, over all runs
    rmPending,        \* entries rmtree has still to visit
    cpPending,        \* entries copytree has still to copy
    cpErrors,         \* copytree's `errors` list is non-empty
    training_fraction,\* load_train_val_data's argument, a rational num/den
    full_train_len,   \* load_train_val_data's local
    train_len,        \* load_train_val_data's local
    val_len,          \* load_train_val_data's local
    split_pc,         \* position of a lone load_train_val_data call
    score_pc,         \* position of the scoring script
    entries,          \* IMAGES_DIR's entries in iterdir() order
    image_paths,      \* score main's local
    predicted_indices,\* score main's local
    predictions       \* score main's local

trainVars == <<pc, run, device, epoch, calls, logged, failedIn, modelDir,
               modelDirAtStart, tmp, temp_path, tempPaths, rmPending,
               cpPending, cpErrors>>
splitVars == <<training_fraction, full_train_len, train_len, val_len, split_pc>>
scoreVars == <<score_pc, entries, image_paths, predicted_indices, predictions>>
vars == <<trainVars, splitVars, scoreVars>>

----------------------------------------------------------------------------
(* Bounds of the model *)

MaxRuns == 2        \* invocations of the training script
MaxFullLen == 6     \* dataset lengths drawn by SplitSpec
MaxNum == 8         \* |numerator| of the fractions drawn by SplitSpec
MaxDen == 4         \* denominators of the fractions drawn by SplitSpec
MaxEntries == 2     \* entries of IMAGES_DIR drawn by ScoreSpec

----------------------------------------------------------------------------
(* Program constants *)

epochs == 5
TrainingFractionNum == 4      \* 0.8 = 4/5
TrainingFractionDen == 5
FashionMNISTTrainLen == 60000 \* len(datasets.FashionMNIST(train=True))

MetricKeys == {"training_loss", "training_accuracy",
               "validation_loss", "validation_accuracy"}

Devices == {"cuda", "cpu"}

\* torchvision's FashionMNIST.classes
classes == <<"T-shirt/top", "Trouser", "Pullover", "Dress", "Coat",
             "Sandal", "Shirt", "Sneaker", "Bag", "Ankle boot">>

----------------------------------------------------------------------------
(* The file system *)

\* What an mlflow model directory holds, and what else may lie in model_dir.
ArtifactFiles == {"MLmodel", "data/model.pth"}
OtherFiles == {"stale.txt"}
FileNames == ArtifactFiles \cup OtherFiles

Uuids == 1..MaxRuns

\* A file is [name, run, whole]: written by `run` (0: before the first run),
\* `whole` unless its write was cut short.
File(n, r, w) == [name |-> n, run |-> r, whole |-> w]

NoDir == [exists |-> FALSE, files |-> {}]
DirOf(fs) == [exists |-> TRUE, files |-> fs]

NamesIn(d) == {f.name : f \in d.files}
WithoutName(d, n) == [d EXCEPT !.files = {f \in @ : f.name # n}]
WithFile(d, f) == [d EXCEPT !.files = {g \in @ : g.name # f.name} \cup {f}]

\* The model artifact as run r serialises it.
ArtifactOf(r) == DirOf({File(n, r, TRUE) : n \in ArtifactFiles})

\* A directory that mlflow.pytorch.load_model can load as run r's model.
HoldsModel(d, r) ==
    /\ d.exists
    /\ \A n \in ArtifactFiles : File(n, r, TRUE) \in d.files

----------------------------------------------------------------------------
(* load_train_val_data: the split *)

\* A fraction is a rational [num, den] with den > 0; L * f is num*L / den.
Fraction(n, d) == [num |-> n, den |-> d]

\* int(x) of x = n/d, d > 0, with Python's floor division n // d for every sign.
IntFloor(n, d) == n \div d

\* int(x) of x = n/d, d > 0: Python's int() drops the fractional part.
IntTrunc(n, d) == IF n >= 0 THEN n \div d ELSE -((-n) \div d)

\* The split with val_len taken from the complementary fraction, int(L*(1-f)).
SplitLengthsByComplement(L, f) ==
    [train_len |-> IntTrunc(L * f.num, f.den),
     val_len   |-> IntTrunc(L * (f.den - f.num), f.den)]

\* train_len = int(full_train_len * training_fraction)
\* val_len = full_train_len - train_len
SplitLengths(L, f) ==
    LET tl == IntTrunc(L * f.num, f.den)
    IN  [train_len |-> tl, val_len |-> L - tl]

----------------------------------------------------------------------------
(* The training script *)

Call(op, e, d) == [op |-> op, epoch |-> e, device |-> d]
NoDevice == "n/a"

\* The training script's variables before `python train.py`, over a model_dir
\* that is missing or holds any files from before.
TrainInit ==
    /\ pc = "main"
    /\ run = 1
    /\ device = "unset"
    /\ epoch = 0
    /\ calls = <<>>
    /\ logged = <<>>
    /\ failedIn = "none"
    /\ modelDir \in {NoDir} \cup
                    {DirOf({File(n, 0, TRUE) : n \in S}) : S \in SUBSET FileNames}
    /\ modelDirAtStart = modelDir
    /\ tmp = [u \in Uuids |-> NoDir]
    /\ temp_path = 0
    /\ tempPaths = <<>>
    /\ rmPending = {}
    /\ cpPending = {}
    /\ cpErrors = FALSE

\* The training script not run at all.
TrainIdle ==
    /\ pc = "idle"
    /\ run = 1
    /\ device = "unset"
    /\ epoch = 0
    /\ calls = <<>>
    /\ logged = <<>>
    /\ failedIn = "none"
    /\ modelDir = NoDir
    /\ modelDirAtStart = NoDir
    /\ tmp = [u \in Uuids |-> NoDir]
    /\ temp_path = 0
    /\ tempPaths = <<>>
    /\ rmPending = {}
    /\ cpPending = {}
    /\ cpErrors = FALSE

\* train's call of load_train_val_data not yet made; its fraction is 0.8.
SplitIdle ==
    /\ training_fraction = Fraction(TrainingFractionNum, TrainingFractionDen)
    /\ full_train_len = 0
    /\ train_len = 0
    /\ val_len = 0
    /\ split_pc = "idle"

\* The scoring script not run at all.
ScoreIdle ==
    /\ score_pc = "idle"
    /\ entries = <<>>
    /\ image_paths = <<>>
    /\ predicted_indices = <<>>
    /\ predictions = <<>>

Init == TrainInit /\ SplitIdle /\ ScoreIdle

\* An exception in `op`, caught and dropped: the script goes on to `next`.
RaiseSwallowed(op, next) ==
    /\ pc' = next
    /\ failedIn' = op

\* An exception in `op`, whose successor in the script is `next`: nothing
\* catches it, and it ends the process.
RaiseFrom(op, next) ==
    /\ pc' = "failed"
    /\ failedIn' = op

saveVars == <<modelDir, modelDirAtStart, tmp, temp_path, tempPaths,
              rmPending, cpPending, cpErrors>>

\* main: parse the arguments, choose the device, call train.
Main ==
    /\ pc = "main"
    /\ device' \in Devices
    /\ pc' = "load"
    /\ UNCHANGED <<run, epoch, calls, logged, failedIn>>
    /\ UNCHANGED <<saveVars, splitVars, scoreVars>>

\* train: load_train_val_data(data_dir, batch_size, 0.8)
LoadData ==
    /\ pc = "load"
    /\ calls' = Append(calls, Call("load_train_val_data", 0, NoDevice))
    /\ \/ /\ full_train_len' = FashionMNISTTrainLen
          /\ LET s == SplitLengths(FashionMNISTTrainLen, training_fraction)
             IN  /\ train_len' = s.train_len
                 /\ val_len' = s.val_len
          /\ pc' = "model"
          /\ UNCHANGED failedIn
       \/ /\ RaiseFrom("load_train_val_data", "model")
          /\ UNCHANGED <<full_train_len, train_len, val_len>>
    /\ UNCHANGED <<run, device, epoch, logged, training_fraction, split_pc>>
    /\ UNCHANGED <<saveVars, scoreVars>>

\* The first iteration of `for epoch in range(epochs)`.
LoopEnter == IF 0 < epochs THEN "fit" ELSE "save_model"

\* The loop left after its first iteration.
LoopNextOnce(e) == [pc |-> "save_model", epoch |-> e]

\* The next iteration of `for epoch in range(epochs)`, or the loop's exit.
LoopNext(e) ==
    IF e + 1 < epochs THEN [pc |-> "fit", epoch |-> e + 1]
                      ELSE [pc |-> "save_model", epoch |-> e]

\* train: model = NeuralNetwork(); loss_fn; optimizer
NewModel ==
    /\ pc = "model"
    /\ calls' = Append(calls, Call("NeuralNetwork", 0, NoDevice))
    /\ epoch' = 0
    /\ pc' = LoopEnter
    /\ UNCHANGED <<run, device, logged, failedIn>>
    /\ UNCHANGED <<saveVars, splitVars, scoreVars>>

\* The device argument with the literal "cpu" in its place.
DeviceArgCpu == "cpu"

\* The device argument of fit and evaluate: train's parameter.
DeviceArg == device

\* train: fit(device, train_dataloader, model, loss_fn, optimizer)
Fit ==
    /\ pc = "fit"
    /\ calls' = Append(calls, Call("fit", epoch, DeviceArg))
    /\ \/ pc' = "evaluate" /\ UNCHANGED failedIn
       \/ RaiseFrom("fit", "evaluate")
    /\ UNCHANGED <<run, device, epoch, logged>>
    /\ UNCHANGED <<saveVars, splitVars, scoreVars>>

\* train: evaluate(device, val_dataloader, model, loss_fn)
Evaluate ==
    /\ pc = "evaluate"
    /\ calls' = Append(calls, Call("evaluate", epoch, DeviceArg))
    /\ \/ pc' = "log_metrics" /\ UNCHANGED failedIn
       \/ RaiseFrom("evaluate", "log_metrics")
    /\ UNCHANGED <<run, device, epoch, logged>>
    /\ UNCHANGED <<saveVars, splitVars, scoreVars>>

\* The step logged as the 1-based epoch number of the "Epoch %d" message.
LogStepOneBased == epoch + 1

\* mlflow.log_metrics(metrics, step=epoch)
LogStep == epoch

\* train: build the metrics dict, log it, go round the loop.
LogMetrics ==
    /\ pc = "log_metrics"
    /\ calls' = Append(calls, Call("log_metrics", epoch, NoDevice))
    /\ \/ /\ logged' = Append(logged, [step |-> LogStep, keys |-> MetricKeys])
          /\ pc' = LoopNext(epoch).pc
          /\ epoch' = LoopNext(epoch).epoch
          /\ UNCHANGED failedIn
       \/ /\ RaiseFrom("log_metrics", LoopNext(epoch).pc)
          /\ UNCHANGED <<logged, epoch>>
    /\ UNCHANGED <<run, device>>
    /\ UNCHANGED <<saveVars, splitVars, scoreVars>>

----------------------------------------------------------------------------
(* save_model *)

trainLocals == <<run, device, epoch, logged>>

\* uuid.uuid4(): a name no earlier call returned.
Uuid4 == Uuids \ {tempPaths[i] : i \in 1..Len(tempPaths)}

\* save_model: code paths, temp_path = Path(gettempdir(), str(uuid4()))
SaveModelEnter ==
    /\ pc = "save_model"
    /\ calls' = Append(calls, Call("save_model", epoch, NoDevice))
    /\ \E u \in Uuid4 :
          /\ temp_path' = u
          /\ tempPaths' = Append(tempPaths, u)
    /\ pc' = "mlflow_save"
    /\ UNCHANGED <<trainLocals, failedIn, modelDir, modelDirAtStart, tmp,
                   rmPending, cpPending, cpErrors>>
    /\ UNCHANGED <<splitVars, scoreVars>>

\* What a serialisation that raises leaves behind: nothing, or a directory
\* holding some, not all, of the artifact's files.
PartialArtifacts(r) ==
    {NoDir} \cup
    {DirOf({File(n, r, TRUE) : n \in S}) : S \in SUBSET ArtifactFiles \ {ArtifactFiles}}

\* The model serialised straight into model_dir, no temp path between.
MlflowSaveModelInPlace ==
    /\ pc = "mlflow_save"
    /\ \/ /\ modelDir' = [exists |-> TRUE,
                          files |-> {f \in modelDir.files : f.name \notin ArtifactFiles}
                                    \cup ArtifactOf(run).files]
          /\ pc' = "done"
          /\ UNCHANGED failedIn
       \/ /\ \E d \in PartialArtifacts(run) :
                modelDir' = [exists |-> modelDir.exists \/ d.exists,
                             files |-> {f \in modelDir.files : f.name \notin NamesIn(d)}
                                       \cup d.files]
          /\ RaiseFrom("mlflow_save_model", "rmtree")
    /\ UNCHANGED <<trainLocals, calls, modelDirAtStart, tmp, temp_path, tempPaths,
                   rmPending, cpPending, cpErrors>>
    /\ UNCHANGED <<splitVars, scoreVars>>

\* save_model: mlflow.pytorch.save_model(pytorch_model, path=temp_path, code_paths)
MlflowSaveModel ==
    /\ pc = "mlflow_save"
    /\ \/ /\ tmp' = [tmp EXCEPT ![temp_path] = ArtifactOf(run)]
          /\ pc' = "rmtree"
          /\ UNCHANGED failedIn
       \/ /\ \E d \in PartialArtifacts(run) : tmp' = [tmp EXCEPT ![temp_path] = d]
          /\ RaiseFrom("mlflow_save_model", "rmtree")
    /\ UNCHANGED <<trainLocals, calls, modelDir, modelDirAtStart, temp_path,
                   tempPaths, rmPending, cpPending, cpErrors>>
    /\ UNCHANGED <<splitVars, scoreVars>>

\* save_model: shutil.rmtree(model_dir, ignore_errors=True), the listing.
\* A missing model_dir is an error, and ignored.
RmtreeScan ==
    /\ pc = "rmtree"
    /\ rmPending' = IF modelDir.exists THEN NamesIn(modelDir) ELSE {}
    /\ pc' = IF modelDir.exists THEN "rmtree_entries" ELSE "copytree"
    /\ UNCHANGED <<trainLocals, calls, failedIn, modelDir, modelDirAtStart, tmp,
                   temp_path, tempPaths, cpPending, cpErrors>>
    /\ UNCHANGED <<splitVars, scoreVars>>

\* rmtree: one entry is unlinked, or its error is ignored and the entry stays.
RmtreeEntry ==
    /\ pc = "rmtree_entries"
    /\ \E n \in rmPending :
          /\ rmPending' = rmPending \ {n}
          /\ \/ modelDir' = WithoutName(modelDir, n)
             \/ UNCHANGED modelDir
    /\ UNCHANGED <<pc, trainLocals, calls, failedIn, modelDirAtStart, tmp,
                   temp_path, tempPaths, cpPending, cpErrors>>
    /\ UNCHANGED <<splitVars, scoreVars>>

\* rmtree: os.rmdir(model_dir) at the end; on a directory that is not empty it
\* fails, and the error is ignored.
RmtreeRmdir ==
    /\ pc = "rmtree_entries"
    /\ rmPending = {}
    /\ modelDir' = IF modelDir.files = {} THEN NoDir ELSE modelDir
    /\ pc' = "copytree"
    /\ UNCHANGED <<trainLocals, calls, failedIn, modelDirAtStart, tmp,
                   temp_path, tempPaths, rmPending, cpPending, cpErrors>>
    /\ UNCHANGED <<splitVars, scoreVars>>

\* save_model: shutil.copytree(temp_path, model_dir, dirs_exist_ok=True), the
\* listing of temp_path and os.makedirs(model_dir, exist_ok=True).
CopytreeMakedirs ==
    /\ pc = "copytree"
    /\ \/ /\ modelDir' = [modelDir EXCEPT !.exists = TRUE]
          /\ cpPending' = NamesIn(tmp[temp_path])
          /\ cpErrors' = FALSE
          /\ pc' = "copytree_entries"
          /\ UNCHANGED failedIn
       \/ /\ RaiseFrom("copytree", "copytree_entries")
          /\ UNCHANGED <<modelDir, cpPending, cpErrors>>
    /\ UNCHANGED <<trainLocals, calls, modelDirAtStart, tmp, temp_path,
                   tempPaths, rmPending>>
    /\ UNCHANGED <<splitVars, scoreVars>>

\* copytree: copy2 of one entry over whatever has its name. An OSError is added
\* to `errors` and the loop goes on; the destination file is then untouched
\* (it could not be opened) or cut short.
CopytreeEntry ==
    /\ pc = "copytree_entries"
    /\ \E f \in tmp[temp_path].files :
          /\ f.name \in cpPending
          /\ cpPending' = cpPending \ {f.name}
          /\ \/ /\ modelDir' = WithFile(modelDir, f)
                /\ UNCHANGED cpErrors
             \/ /\ modelDir' \in {modelDir, WithFile(modelDir, File(f.name, f.run, FALSE))}
                /\ cpErrors' = TRUE
    /\ UNCHANGED <<pc, trainLocals, calls, failedIn, modelDirAtStart, tmp,
                   temp_path, tempPaths, rmPending>>
    /\ UNCHANGED <<splitVars, scoreVars>>

\* copytree: `if errors: raise Error(errors)`, else return; save_model, train
\* and main return after it.
CopytreeReturn ==
    /\ pc = "copytree_entries"
    /\ cpPending = {}
    /\ \/ /\ ~cpErrors
          /\ pc' = "done"
          /\ UNCHANGED failedIn
       \/ /\ cpErrors
          /\ RaiseFrom("copytree", "done")
    /\ UNCHANGED <<trainLocals, calls, saveVars>>
    /\ UNCHANGED <<splitVars, scoreVars>>

----------------------------------------------------------------------------
(* The process and its environment *)

Running == pc \notin {"done", "failed", "crashed"}
InSaveModel == pc \in {"mlflow_save", "rmtree", "rmtree_entries",
                       "copytree", "copytree_entries"}

\* The process is killed where it stands.
Crash ==
    /\ Running
    /\ pc # "main"
    /\ pc' = "crashed"
    /\ UNCHANGED <<trainLocals, calls, failedIn, saveVars>>
    /\ UNCHANGED <<splitVars, scoreVars>>

\* `python train.py` once more, over the file system the last run left.
Rerun ==
    /\ ~Running
    /\ run < MaxRuns
    /\ run' = run + 1
    /\ pc' = "main"
    /\ device' = "unset"
    /\ epoch' = 0
    /\ calls' = <<>>
    /\ logged' = <<>>
    /\ failedIn' = "none"
    /\ modelDirAtStart' = modelDir
    /\ temp_path' = 0
    /\ rmPending' = {}
    /\ cpPending' = {}
    /\ cpErrors' = FALSE
    /\ full_train_len' = 0
    /\ train_len' = 0
    /\ val_len' = 0
    /\ UNCHANGED <<modelDir, tmp, tempPaths, training_fraction, split_pc>>
    /\ UNCHANGED scoreVars

Next ==
    \/ Main
    \/ LoadData
    \/ NewModel
    \/ Fit
    \/ Evaluate
    \/ LogMetrics
    \/ SaveModelEnter
    \/ MlflowSaveModel
    \/ RmtreeScan
    \/ RmtreeEntry
    \/ RmtreeRmdir
    \/ CopytreeMakedirs
    \/ CopytreeEntry
    \/ CopytreeReturn
    \/ Crash
    \/ Rerun

Spec == Init /\ [][Next]_vars

----------------------------------------------------------------------------
(* load_train_val_data on its own, for any length and any fraction *)

Fractions == {Fraction(n, d) : n \in -MaxNum..MaxNum, d \in 1..MaxDen}

SplitInit ==
    /\ TrainIdle
    /\ ScoreIdle
    /\ training_fraction \in Fractions
    /\ full_train_len \in 0..MaxFullLen
    /\ train_len = 0
    /\ val_len = 0
    /\ split_pc = "call"

\* load_train_val_data: the two lengths handed to random_split.
SplitCall ==
    /\ split_pc = "call"
    /\ LET s == SplitLengths(full_train_len, training_fraction)
       IN  /\ train_len' = s.train_len
           /\ val_len' = s.val_len
    /\ split_pc' = "random_split"
    /\ UNCHANGED <<training_fraction, full_train_len>>
    /\ UNCHANGED <<trainVars, scoreVars>>

SplitNext == SplitCall

SplitSpec == SplitInit /\ [][SplitNext]_vars

----------------------------------------------------------------------------
(* The scoring script *)

\* An entry of IMAGES_DIR: a regular file or not, and the class index the
\* loaded model gives its image. A path is the entry's place in the listing.
Entry(isFile, c) == [is_file |-> isFile, cls |-> c]
ClassIndices == 0..(Len(classes) - 1)
Listings ==
    UNION {[1..n -> {Entry(b, c) : b \in BOOLEAN, c \in ClassIndices}] : n \in 0..MaxEntries}

ScoreInit ==
    /\ TrainIdle
    /\ SplitIdle
    /\ score_pc = "load_model"
    /\ entries \in Listings
    /\ image_paths = <<>>
    /\ predicted_indices = <<>>
    /\ predictions = <<>>

\* main: model = mlflow.pytorch.load_model(MODEL_DIR); device
ScoreLoadModel ==
    /\ score_pc = "load_model"
    /\ score_pc' \in {"iterdir", "failed"}
    /\ UNCHANGED <<entries, image_paths, predicted_indices, predictions>>
    /\ UNCHANGED <<trainVars, splitVars>>

\* Every entry of the listing, regular file or not.
AllPaths(es) == [i \in 1..Len(es) |-> i]

RECURSIVE FilePathsFrom(_, _)
FilePathsFrom(es, i) ==
    IF i > Len(es) THEN <<>>
    ELSE (IF es[i].is_file THEN <<i>> ELSE <<>>) \o FilePathsFrom(es, i + 1)

\* [f.as_posix() for f in Path(IMAGES_DIR).iterdir() if Path.is_file(f)]
FilePaths(es) == FilePathsFrom(es, 1)

\* main: image_paths, images_dataset, dataloader
ListImages ==
    /\ score_pc = "iterdir"
    /\ image_paths' = FilePaths(entries)
    /\ score_pc' = "predict"
    /\ UNCHANGED <<entries, predicted_indices, predictions>>
    /\ UNCHANGED <<trainVars, splitVars>>

\* utils_score_nn.predict over a DataLoader of batch size 1: one class index
\* for each item of the dataset, in the dataset's order.
predict(paths) == [i \in 1..Len(paths) |-> entries[paths[i]].cls]

\* main: predicted_indices = predict(dataloader, model, device)
Predict ==
    /\ score_pc = "predict"
    /\ \/ /\ predicted_indices' = predict(image_paths)
          /\ score_pc' = "labels"
       \/ /\ score_pc' = "failed"
          /\ UNCHANGED predicted_indices
    /\ UNCHANGED <<entries, image_paths, predictions>>
    /\ UNCHANGED <<trainVars, splitVars>>

\* [FashionMNIST.classes[predicted_index] for predicted_index in predicted_indices]
Labels(indices) == [i \in 1..Len(indices) |-> classes[indices[i] + 1]]

\* main: predictions = [...]; logging.info("Predictions: %s", predictions)
MapLabels ==
    /\ score_pc = "labels"
    /\ predictions' = Labels(predicted_indices)
    /\ score_pc' = "done"
    /\ UNCHANGED <<entries, image_paths, predicted_indices>>
    /\ UNCHANGED <<trainVars, splitVars>>

ScoreNext ==
    \/ ScoreLoadModel
    \/ ListImages
    \/ Predict
    \/ MapLabels

ScoreSpec == ScoreInit /\ [][ScoreNext]_vars

----------------------------------------------------------------------------
(* Properties *)

SaveModelEntered == temp_path # 0
PreviousModelWhole == \E r \in 0..MaxRuns : modelDirAtStart = ArtifactOf(r)

\* C1: after save_model returns, model_dir holds exactly the newly saved model
\* artifact and nothing that was in it before the call, whatever it held.
C1_ModelDirExactlyNewModel ==
    pc = "done" => modelDir = ArtifactOf(run)

\* C2: in every intermediate state of save_model, a crash or an exception
\* included, model_dir holds the complete previous model or the complete new
\* model, never an absent, empty or partly copied directory.
C2_AtomicReplace ==
    (SaveModelEntered /\ PreviousModelWhole)
        => modelDir \in {modelDirAtStart, ArtifactOf(run)}

\* C3: the two lengths load_train_val_data hands to random_split add up to the
\* full dataset's length, for every length and every fraction.
C3_SplitLengthsSumToLen ==
    split_pc = "random_split" => train_len + val_len = full_train_len

\* A split where the product L*f is positive and not a whole number.
C3_Witness ==
    /\ split_pc = "random_split"
    /\ training_fraction.num > 0
    /\ (full_train_len * training_fraction.num) % training_fraction.den # 0
    /\ train_len > 0
    /\ val_len > 0

\* C4, as stated: train_len is floor(L*f) for every length and every fraction,
\* and 0 <= train_len <= L and val_len >= 0 whenever 0 <= f <= 1.
C4_TrainLenIsFloor ==
    split_pc = "random_split" =>
        LET p == full_train_len * training_fraction.num
            d == training_fraction.den
        IN  /\ d * train_len <= p
            /\ p < d * (train_len + 1)
            /\ (0 <= training_fraction.num /\ training_fraction.num <= d)
                  => (0 <= train_len /\ train_len <= full_train_len /\ val_len >= 0)

\* C4, amended: train_len is L*f with its fractional part dropped (rounded
\* toward zero), which is floor(L*f) whenever f >= 0; and 0 <= train_len <= L
\* and val_len >= 0 whenever 0 <= f <= 1.
C4_TrainLenIsTruncation ==
    split_pc = "random_split" =>
        LET p == full_train_len * training_fraction.num
            d == training_fraction.den
        IN  /\ p >= 0 => (d * train_len <= p /\ p < d * (train_len + 1))
            /\ p < 0 => (d * (train_len - 1) < p /\ p <= d * train_len)
            /\ (0 <= training_fraction.num /\ training_fraction.num <= d)
                  => (0 <= train_len /\ train_len <= full_train_len /\ val_len >= 0)

\* A split by a negative fraction whose product L*f is not a whole number.
C4_Witness ==
    /\ split_pc = "random_split"
    /\ training_fraction.num < 0
    /\ (full_train_len * training_fraction.num) % training_fraction.den # 0

FileEntries == {i \in 1..Len(entries) : entries[i].is_file}
LabelSet == {"T-shirt/top", "Trouser", "Pullover", "Dress", "Coat",
             "Sandal", "Shirt", "Sneaker", "Bag", "Ankle boot"}

C6_OneRecordPerEpoch ==
    /\ \A i \in 1..Len(logged) :
          /\ logged[i].step = i - 1
          /\ logged[i].keys = {"training_loss", "training_accuracy",
                               "validation_loss", "validation_accuracy"}
    /\ Len(logged) <= 5
    /\ pc \in {"fit", "evaluate", "log_metrics"} => Len(logged) = epoch
    /\ (pc \in {"save_model", "done"} \/ InSaveModel) =>
          /\ Len(logged) = 5
          /\ Cardinality({i \in 1..Len(calls) : calls[i].op = "fit"}) = 5

\* A run that went through its whole loop and saved the model.
C6_Witness ==
    /\ pc = "done"
    /\ Len(logged) = 5
    /\ logged[5].step = 4

\* C7: an exception of data loading, fit, evaluate or log_metrics ends the
\* run there: nothing is called after the call that raised, save_model least
\* of all, and model_dir is as the run found it.
C7_FailurePropagates ==
    failedIn \in {"load_train_val_data", "fit", "evaluate", "log_metrics"} =>
        /\ pc = "failed"
        /\ calls[Len(calls)].op = failedIn
        /\ \A i \in 1..Len(calls) : calls[i].op # "save_model"
        /\ ~SaveModelEntered
        /\ modelDir = modelDirAtStart

\* evaluate raising in the third epoch, over a model_dir that held files.
C7_Witness ==
    /\ pc = "failed"
    /\ failedIn = "evaluate"
    /\ epoch = 2
    /\ modelDir.files # {}

\* C8: the device is chosen once, in main, before train is called; every fit
\* and every evaluate gets that device, and no step of the run changes it.
C8_DeviceStatic ==
    /\ [](/\ pc \notin {"main", "idle"} => device \in {"cuda", "cpu"}
          /\ \A i \in 1..Len(calls) :
                calls[i].op \in {"fit", "evaluate"} => calls[i].device = device)
    /\ [][(pc # "main" /\ pc' # "main") => device' = device]_vars

\* A whole run on the accelerator.
C8_Witness ==
    /\ pc = "done"
    /\ device = "cuda"
    /\ \E i \in 1..Len(calls) : calls[i] = Call("evaluate", 4, "cuda")

C9_ExpectedOps ==
    <<"load_train_val_data", "NeuralNetwork",
      "fit", "evaluate", "log_metrics",
      "fit", "evaluate", "log_metrics",
      "fit", "evaluate", "log_metrics",
      "fit", "evaluate", "log_metrics",
      "fit", "evaluate", "log_metrics",
      "save_model">>

\* C9: train's operations come in the order load and split, model, then per
\* epoch fit, evaluate, log_metrics; save_model is called once, after the last
\* epoch's metrics were logged (and not at all in a run that ended before).
C9_OperationOrder ==
    /\ Len(calls) <= Len(C9_ExpectedOps)
    /\ \A i \in 1..Len(calls) :
          /\ calls[i].op = C9_ExpectedOps[i]
          /\ calls[i].op \in {"fit", "evaluate", "log_metrics"}
                => calls[i].epoch = (i - 3) \div 3
    /\ SaveModelEntered =>
          /\ Len(calls) = Len(C9_ExpectedOps)
          /\ Len(logged) = 5
    /\ pc = "done" => calls[Len(calls)].op = "save_model"

\* A run that reached save_model.
C9_Witness ==
    /\ pc = "rmtree"
    /\ Len(calls) = 18
    /\ calls[17] = Call("log_metrics", 4, NoDevice)

\* C10: when the serialisation to the temp path raises, model_dir is as it
\* was; model_dir is touched only once the temp path holds the whole new
\* model, and no two saves share a temp path.
C10_SerializationFailureKeepsModelDir ==
    /\ failedIn = "mlflow_save_model" => (pc = "failed" /\ modelDir = modelDirAtStart)
    /\ (modelDir # modelDirAtStart
          \/ pc \in {"rmtree", "rmtree_entries", "copytree", "copytree_entries", "done"})
          => (SaveModelEntered /\ tmp[temp_path] = ArtifactOf(run))
    /\ \A i, j \in 1..Len(tempPaths) : i # j => tempPaths[i] # tempPaths[j]

\* A second run whose serialisation raised part-way, over the first run's model.
C10_Witness ==
    /\ run = 2
    /\ failedIn = "mlflow_save_model"
    /\ modelDir = ArtifactOf(1)
    /\ tmp[temp_path].files # {}
    /\ tmp[temp_path] # ArtifactOf(2)

====
